---- MODULE Spec2Model ----
(***************************************************************************)
(* Model of the real-time synchronisation core of taskback                 *)
(* (src/src/index.ts): the per-board connection registry                   *)
(* (boardConnections), the WebSocket handshake, broadcastToBoard, the      *)
(* in-band reorder handler, the REST task handlers that publish events and *)
(* the team routes that change who may access a board.                     *)
(*                                                                         *)
(* Every `await` of a handler is one atomic step: the database operation   *)
(* takes effect in that step.  Code that runs after the last await of a    *)
(* handler and touches process state (broadcastToBoard) is a step of its   *)
(* own, because other handlers' database operations can take effect        *)
(* between the operation and the continuation that follows it.             *)
(***************************************************************************)
EXTENDS Integers, Sequences, FiniteSets, TLC

\* ------------------------------------------------------------------ bounds
NumConns == 3        \* WebSocket connections ever accepted
NumSyncConns == 2    \* of these, the ones accepted while handlers run
MaxReq == 2          \* handler invocations (in-band messages + REST requests)

Conns == 1..NumConns
SyncConns == 1..NumSyncConns
Slots == 1..MaxReq

\* ------------------------------------------------------------ static data
None == "none"       \* undefined / null / absent document

Users == {"u1", "u2"}
\* ids a client may name as a board; "bx" names no stored board until
\* POST /boards creates one, to which uuidv4() gives that id
BoardKeys == {"b1", "b2", "bx"}
\* ids a client may name as a task; "N1", "N2" are the ids uuidv4() hands out
NewIds == <<"N1", "N2">>
TaskIds == {"A", "C", "D", "N1", "N2"}
Columns == {"todo", "inprogress", "done", "unsure"}

\* readyState values of the ws library; Connecting stands for a connection
\* the server has not accepted yet
Connecting == 0
Open == 1
Closing == 2
Closed == 3

\* (mutant) the columns in the order the board shows them
BoardColumnRank(col) ==
  CASE col = "todo" -> 0
    [] col = "inprogress" -> 1
    [] col = "done" -> 2
    [] col = "unsure" -> 3

\* MongoDB compares strings by their bytes: the ascending sort on `column`
\* orders the four column names alphabetically
ColumnRank(col) ==
  CASE col = "done" -> 0
    [] col = "inprogress" -> 1
    [] col = "todo" -> 2
    [] col = "unsure" -> 3

\* ------------------------------------------------------------------ state
VARIABLES
  boardsCol,         \* boards collection: board id -> document (NoBoard: none stored)
  teamsCol,          \* teams collection: team id -> document
  tasksCol,          \* tasks collection: task id -> document (NoTask: none stored)
  nextId,            \* how many ids uuidv4() has handed out
  ws,                \* the WebSocketClient objects: readyState, userId, boardId
  boardConnections,  \* Map<string, Set<WebSocketClient>>
  inbox,             \* what client.send() has put on each connection
  req                \* the handler invocations in flight, one per slot

vars == <<boardsCol, teamsCol, tasksCol, nextId, ws, boardConnections, inbox, req>>

Task(id, b, col, ord) == [id |-> id, boardId |-> b, column |-> col, order |-> ord]

\* findOne() resolving to null: a document whose id is None
NoTask == Task(None, None, None, 0)
NoBoard == [id |-> None, teamId |-> None, ownerId |-> None, isPersonal |-> FALSE]
NoTeam == [id |-> None, ownerId |-> None, members |-> {}]

\* The stored data the runs start from: a team board b1 (team tm1, whose only
\* member is u1) holding A and C, and a personal board b2 of u2 holding D.
InitBoards ==
  [b \in BoardKeys |->
     CASE b = "b1" -> [id |-> "b1", teamId |-> "tm1", ownerId |-> "u1", isPersonal |-> FALSE]
       [] b = "b2" -> [id |-> "b2", teamId |-> None, ownerId |-> "u2", isPersonal |-> TRUE]
       [] OTHER -> NoBoard]

InitTeams == [t \in {"tm1"} |-> [id |-> "tm1", ownerId |-> "u1", members |-> {"u1"}]]

InitTasks ==
  [t \in TaskIds |->
     CASE t = "A" -> Task("A", "b1", "todo", 0)
       [] t = "C" -> Task("C", "b1", "todo", 1)
       [] t = "D" -> Task("D", "b2", "todo", 0)
       [] OTHER -> NoTask]

\* token is the credential of the handshake URL, kept in the closure of the
\* connection's callbacks
NewSocket ==
  [readyState |-> Connecting, userId |-> None, boardId |-> None, listening |-> FALSE, token |-> None]

\* A handler invocation: its kind, the await it is suspended at, its inputs
\* (conn, user, boardId, updates of a reorder message
\* (tasksGiven: whether the message has a tasks field); user, boardId, id,
\* column of a REST request; user, id (the team) and invitee of a team route),
\* its locals (i, board, task, updatedTask, tasks, team, boardIds) and, once it
\* has returned, what it answered
FreeSlot ==
  [kind |-> "free", pc |-> "free", conn |-> 0, user |-> None, boardId |-> None,
   updates |-> << >>, id |-> None, column |-> None, i |-> 0, board |-> NoBoard,
   task |-> NoTask, updatedTask |-> NoTask, tasks |-> << >>, result |-> None,
   invitee |-> None, team |-> NoTeam, boardIds |-> {}, tasksGiven |-> TRUE]

\* a handler that has returned: only its kind, the task id of its URL and its
\* answer are kept.  The answer of a REST handler is its HTTP status; the
\* reorder handler answers nothing, and its result tells whether it reached
\* its last log line ("Reorder completed and broadcasted") or dropped the
\* message.
Returned(kind, id, result) ==
  [FreeSlot EXCEPT !.kind = kind, !.pc = "done", !.id = id, !.result = result]

Init ==
  /\ boardsCol = InitBoards
  /\ teamsCol = InitTeams
  /\ tasksCol = InitTasks
  /\ nextId = 0
  /\ ws = [c \in Conns |-> NewSocket]
  /\ boardConnections = [b \in {} |-> {}]
  /\ inbox = [c \in Conns |-> << >>]
  /\ req = [h \in Slots |-> FreeSlot]

\* --------------------------------------------------------------- registry
\* boardConnections.get(b), the empty set standing for `undefined`
ClientsOf(b) == IF b \in DOMAIN boardConnections THEN boardConnections[b] ELSE {}

\* (mutant) the set of the board is created anew on every admission
AdmitFresh(c, b) ==
  [k \in (DOMAIN boardConnections) \cup {b} |-> IF k = b THEN {c} ELSE boardConnections[k]]

\* (mutant) the connection is added to every set of the map
AdmitEverywhere(c, b) ==
  [k \in (DOMAIN boardConnections) \cup {b} |-> ClientsOf(k) \cup {c}]

\* if (!boardConnections.has(boardId)) boardConnections.set(boardId, new Set());
\* boardConnections.get(boardId)!.add(ws)
Admit(c, b) ==
  [k \in (DOMAIN boardConnections) \cup {b} |-> IF k = b THEN ClientsOf(b) \cup {c} ELSE boardConnections[k]]

\* (mutant) the close handler leaves the board's set as it is
RemoveNothing(c, b) == boardConnections

\* if (ws.boardId && boardConnections.has(ws.boardId))
\*   boardConnections.get(ws.boardId)!.delete(ws)
Remove(c, b) ==
  IF b # None /\ b \in DOMAIN boardConnections
  THEN [boardConnections EXCEPT ![b] = @ \ {c}]
  ELSE boardConnections

\* jwt.verify(token, JWT_SECRET): the userId of the payload, or None for an error.
\* A token is modelled by the user it was issued to; "bad" is any token that
\* fails verification (malformed, expired, wrong signature).
Tokens == Users \cup {"bad"}

\* (mutant) the payload is decoded without checking the token
VerifyAny(token) == token

Verify(token) == IF token \in Users THEN token ELSE None

\* ------------------------------------------------------------- handshake
\* wss.on("connection"): token and boardId are the query parameters of the URL
Connect(c, token, b) ==
  /\ ws[c].readyState = Connecting
  /\ \A d \in Conns : d < c => ws[d].readyState # Connecting
  /\ IF token = None
     THEN \* ws.close(1008, "Authentication required"); return: no handler is registered
          /\ ws' = [ws EXCEPT ![c].readyState = Closing]
          /\ UNCHANGED boardConnections
     ELSE IF Verify(token) = None
     THEN \* ws.close(1008, "Invalid token"); the handlers below are still registered
          /\ ws' = [ws EXCEPT ![c].readyState = Closing, ![c].listening = TRUE, ![c].token = token]
          /\ UNCHANGED boardConnections
     ELSE /\ ws' = [ws EXCEPT ![c] = [readyState |-> Open, userId |-> Verify(token),
                                      boardId |-> b, listening |-> TRUE, token |-> token]]
          /\ boardConnections' = IF b # None THEN Admit(c, b) ELSE boardConnections
  /\ UNCHANGED <<boardsCol, teamsCol, tasksCol, nextId, inbox, req>>

\* The peer's close frame arrives: the ws library moves the socket to CLOSING
\* and emits "close" only once the underlying socket has ended.
PeerClose(c) ==
  /\ ws[c].readyState = Open
  /\ ws' = [ws EXCEPT ![c].readyState = Closing]
  /\ UNCHANGED <<boardsCol, teamsCol, tasksCol, nextId, boardConnections, inbox, req>>

\* ws.on("error"): the handler only logs; the library has moved the socket to
\* CLOSING and will emit "close".
SocketError(c) ==
  /\ ws[c].readyState = Open
  /\ ws[c].listening
  /\ ws' = [ws EXCEPT ![c].readyState = Closing]
  /\ UNCHANGED <<boardsCol, teamsCol, tasksCol, nextId, boardConnections, inbox, req>>

\* ws.on("close"): the socket is CLOSED when the event is emitted.  Nothing
\* reads a closed socket's fields or what it was sent any more, so they are
\* dropped with it.
SocketClose(c) ==
  /\ ws[c].readyState \in {Open, Closing}
  /\ ws' = [ws EXCEPT ![c] = [NewSocket EXCEPT !.readyState = Closed]]
  /\ boardConnections' = IF ws[c].listening THEN Remove(c, ws[c].boardId) ELSE boardConnections
  /\ inbox' = [inbox EXCEPT ![c] = << >>]
  /\ UNCHANGED <<boardsCol, teamsCol, tasksCol, nextId, req>>

\* ------------------------------------------------------------- dispatcher
\* (mutant) broadcast(payload): every open client of the server, wss.clients
BroadcastAll(b, payload) ==
  [c \in Conns |-> IF ws[c].readyState = Open THEN Append(inbox[c], payload) ELSE inbox[c]]

\* (mutant) the pass runs over every set of the map
BroadcastToEveryBoard(b, payload) ==
  [c \in Conns |->
     IF (\E k \in DOMAIN boardConnections : c \in boardConnections[k]) /\ ws[c].readyState = Open
     THEN Append(inbox[c], payload)
     ELSE inbox[c]]

\* (mutant) the pass over the board's set stops after its first client
BroadcastToFirst(b, payload) ==
  [c \in Conns |->
     IF c \in ClientsOf(b) /\ ws[c].readyState = Open /\ (\A d \in ClientsOf(b) : c <= d)
     THEN Append(inbox[c], payload)
     ELSE inbox[c]]

\* (mutant) the pass over the board's set, which runs in the order the
\* clients were added, ends at the first client that is not open
BroadcastUntilUnwritable(b, payload) ==
  [c \in Conns |->
     IF c \in ClientsOf(b) /\ (\A d \in ClientsOf(b) : d <= c => ws[d].readyState = Open)
     THEN Append(inbox[c], payload)
     ELSE inbox[c]]

\* broadcastToBoard(boardId, payload): one synchronous pass over the board's
\* set, sending to each client whose readyState is 1
BroadcastToBoard(b, payload) ==
  [c \in Conns |->
     IF c \in ClientsOf(b) /\ ws[c].readyState = Open
     THEN Append(inbox[c], payload)
     ELSE inbox[c]]

\* an outbound message; the fields a type does not carry are empty
Msg(type, b, tasks, task, id) ==
  [type |-> type, boardId |-> b, tasks |-> tasks, task |-> task, id |-> id]

\* -------------------------------------------------------------- task store
\* find({ boardId }): the stored tasks of a board
TasksOf(b) == {tasksCol[t] : t \in {x \in TaskIds : tasksCol[x].id # None /\ tasksCol[x].boardId = b}}

\* sort({ column: 1, order: 1 }): column first, order second, both ascending
KeyLeq(a, b) ==
  \/ ColumnRank(a.column) < ColumnRank(b.column)
  \/ a.column = b.column /\ a.order <= b.order

\* find(...).sort(...).toArray(): every sequence of the documents that is
\* ascending in the sort key.  MongoDB returns documents with equal keys in
\* any order, so each such sequence is a possible result.
RECURSIVE SortedLists(_)
SortedLists(S) ==
  IF S = {} THEN {<< >>}
  ELSE UNION {{<<m>> \o rest : rest \in SortedLists(S \ {m})} :
              m \in {x \in S : \A y \in S : KeyLeq(x, y)}}

\* (mutant) the filter of the write names the task id alone
UpdateOneById(t, b) ==
  IF tasksCol[t.id].id # None
  THEN [tasksCol EXCEPT ![t.id].column = t.column, ![t.id].order = t.order]
  ELSE tasksCol

\* updateOne({ id, boardId }, { $set: { column, order } }): the store after the
\* write; a filter that matches no document changes nothing
UpdateOne(t, b) ==
  IF tasksCol[t.id].id # None /\ tasksCol[t.id].boardId = b
  THEN [tasksCol EXCEPT ![t.id].column = t.column, ![t.id].order = t.order]
  ELSE tasksCol

\* ------------------------------------------------------- reorder handler
\* (mutant) the owner check of a personal board is dropped
AnyoneOwns(board, u) == TRUE

\* (mutant) membership is the one the teams had when the server started
CachedTeamMember(board, u) ==
  \E t \in DOMAIN InitTeams : InitTeams[t].id = board.teamId /\ u \in InitTeams[t].members

\* board.isPersonal ? board.ownerId === ws.userId
\*                  : await teamsCol.findOne({ id: board.teamId, members: ws.userId })
OwnsBoard(board, u) == board.ownerId = u
TeamMember(board, u) ==
  \E t \in DOMAIN teamsCol : teamsCol[t].id = board.teamId /\ u \in teamsCol[t].members

\* a slot is taken only when the slots before it are
CanStart(h) ==
  /\ req[h].pc = "free"
  /\ \A g \in Slots : g < h => req[g].pc # "free"

\* the connection emits "message": it has the handlers, and is open or was
\* closed by the server, whose peer may still be sending
CanReceive(c) ==
  /\ ws[c].listening
  /\ \/ ws[c].readyState = Open
     \/ ws[c].readyState = Closing /\ ws[c].userId = None

\* an element of msg.tasks that is null: reading its id throws a TypeError
NullEntry == [id |-> None, column |-> None, order |-> 0]

\* for (const t of updates): the next updateOne is issued, or the loop has
\* ended and the find is; i counts the writes that have completed.  Building
\* the filter of a null element throws, and the catch of the handler logs.
NextWrite(r) ==
  IF r.i = Len(r.updates) THEN [r EXCEPT !.pc = "read"]
  ELSE IF r.updates[r.i + 1] = NullEntry THEN Returned("reorder", None, "thrown")
  ELSE [r EXCEPT !.pc = "apply"]

\* if (hasAccess) { console.log(..., updates.length, ...); ... }: without a
\* tasks field updates is undefined and reading its length throws
AfterAccess(r) == IF r.tasksGiven THEN NextWrite(r) ELSE Returned("reorder", None, "thrown")

\* ws.on("message") up to its first await: a {type: "reorder", boardId, tasks}
\* message; without ws.userId or boardId nothing is done
RecvReorder(h, c, b, updates) ==
  /\ CanStart(h)
  /\ CanReceive(c)
  /\ req' = [req EXCEPT ![h] =
       IF ws[c].userId # None /\ b # None
       THEN [FreeSlot EXCEPT !.kind = "reorder", !.pc = "findBoard", !.conn = c,
                             !.user = ws[c].userId, !.boardId = b, !.updates = updates]
       ELSE Returned("reorder", None, "dropped")]
  /\ UNCHANGED <<boardsCol, teamsCol, tasksCol, nextId, ws, boardConnections, inbox>>

\* a {type: "reorder", boardId} message without a tasks field
RecvReorderNoTasks(h, c, b) ==
  /\ CanStart(h)
  /\ CanReceive(c)
  /\ req' = [req EXCEPT ![h] =
       IF ws[c].userId # None /\ b # None
       THEN [FreeSlot EXCEPT !.kind = "reorder", !.pc = "findBoard", !.conn = c,
                             !.user = ws[c].userId, !.boardId = b, !.tasksGiven = FALSE]
       ELSE Returned("reorder", None, "dropped")]
  /\ UNCHANGED <<boardsCol, teamsCol, tasksCol, nextId, ws, boardConnections, inbox>>

\* data that JSON.parse rejects (the catch logs), or a message whose type is
\* not "reorder": the handler returns at once
RecvOther(h, c) ==
  /\ CanStart(h)
  /\ CanReceive(c)
  /\ req' = [req EXCEPT ![h] = Returned("message", None, "discarded")]
  /\ UNCHANGED <<boardsCol, teamsCol, tasksCol, nextId, ws, boardConnections, inbox>>

\* await boardsCol.findOne({ id: boardId }); a personal board is decided here
ReorderFindBoard(h) ==
  /\ req[h].kind = "reorder"
  /\ req[h].pc = "findBoard"
  /\ LET board == boardsCol[req[h].boardId]
         r == [req[h] EXCEPT !.board = board]
     IN req' = [req EXCEPT ![h] =
          IF board.id = None THEN Returned("reorder", None, "dropped")
          ELSE IF board.isPersonal
               THEN IF OwnsBoard(board, r.user) THEN AfterAccess(r) ELSE Returned("reorder", None, "dropped")
               ELSE [r EXCEPT !.pc = "findTeam"]]
  /\ UNCHANGED <<boardsCol, teamsCol, tasksCol, nextId, ws, boardConnections, inbox>>

\* await teamsCol.findOne({ id: board.teamId, members: ws.userId })
ReorderFindTeam(h) ==
  /\ req[h].kind = "reorder"
  /\ req[h].pc = "findTeam"
  /\ req' = [req EXCEPT ![h] =
       IF TeamMember(req[h].board, req[h].user) THEN AfterAccess(req[h]) ELSE Returned("reorder", None, "dropped")]
  /\ UNCHANGED <<boardsCol, teamsCol, tasksCol, nextId, ws, boardConnections, inbox>>

\* (mutant) a write that matches no task ends the handler
ReorderApplyStrict(h) ==
  /\ req[h].kind = "reorder"
  /\ req[h].pc = "apply"
  /\ tasksCol' = UpdateOne(req[h].updates[req[h].i + 1], req[h].boardId)
  /\ req' = [req EXCEPT ![h] =
       IF tasksCol' = tasksCol THEN Returned("reorder", None, "dropped")
       ELSE NextWrite([@ EXCEPT !.i = @ + 1])]
  /\ UNCHANGED <<boardsCol, teamsCol, nextId, ws, boardConnections, inbox>>

\* await tasksCol.updateOne(...) for updates[i]
ReorderApply(h) ==
  /\ req[h].kind = "reorder"
  /\ req[h].pc = "apply"
  /\ tasksCol' = UpdateOne(req[h].updates[req[h].i + 1], req[h].boardId)
  /\ req' = [req EXCEPT ![h] = NextWrite([@ EXCEPT !.i = @ + 1])]
  /\ UNCHANGED <<boardsCol, teamsCol, nextId, ws, boardConnections, inbox>>

\* (mutant) the handler republishes the batch the client submitted
SubmittedPayload(r, found) ==
  Msg("tasks_reorder", r.boardId,
      [k \in 1..Len(r.updates) |->
         Task(r.updates[k].id, r.boardId, r.updates[k].column, r.updates[k].order)],
      NoTask, None)

\* the payload the handler publishes once its read has resolved
ReorderPayload(r, found) == Msg("tasks_reorder", r.boardId, found, NoTask, None)

\* await tasksCol.find({ boardId }).sort({ column: 1, order: 1 }).toArray()
ReorderRead(h) ==
  /\ req[h].kind = "reorder"
  /\ req[h].pc = "read"
  /\ \E found \in SortedLists(TasksOf(req[h].boardId)) :
       req' = [req EXCEPT ![h] = [@ EXCEPT !.pc = "bcast", !.tasks = found]]
  /\ UNCHANGED <<boardsCol, teamsCol, tasksCol, nextId, ws, boardConnections, inbox>>

\* (mutant) the snapshot goes to the board's other clients, not to the
\* connection the batch came over
ReorderBroadcastToOthers(h) ==
  /\ req[h].kind = "reorder"
  /\ req[h].pc = "bcast"
  /\ inbox' = [c \in Conns |->
       IF c = req[h].conn THEN inbox[c]
       ELSE BroadcastToBoard(req[h].boardId, ReorderPayload(req[h], req[h].tasks))[c]]
  /\ req' = [req EXCEPT ![h] = Returned("reorder", None, "published")]
  /\ UNCHANGED <<boardsCol, teamsCol, tasksCol, nextId, ws, boardConnections>>

\* broadcastToBoard(boardId, { type: "tasks_reorder", tasks: updatedTasks, boardId })
ReorderBroadcast(h) ==
  /\ req[h].kind = "reorder"
  /\ req[h].pc = "bcast"
  /\ inbox' = BroadcastToBoard(req[h].boardId, ReorderPayload(req[h], req[h].tasks))
  /\ req' = [req EXCEPT ![h] = Returned("reorder", None, "published")]
  /\ UNCHANGED <<boardsCol, teamsCol, tasksCol, nextId, ws, boardConnections>>

\* ---------------------------------------------------------- REST handlers
\* The task routes run behind authenticateToken, so req.user is a verified
\* user; the title of a created task is present.  Title and description are
\* not modelled: no step reads them.

\* where a task route continues once access to the board is granted
AfterRestAccess(r) ==
  [r EXCEPT !.pc = CASE r.kind = "create" -> "findMax"
                     [] r.kind = "update" -> "updateOne"
                     [] r.kind = "delete" -> "deleteOne"]

\* POST /boards/:boardId/tasks up to its first await
RecvCreate(h, u, b, col) ==
  /\ CanStart(h)
  /\ nextId + Cardinality({g \in Slots : req[g].kind = "create" /\ req[g].pc \in {"findBoard", "findTeam", "findMax"}})
       < Len(NewIds)
  /\ req' = [req EXCEPT ![h] =
       [FreeSlot EXCEPT !.kind = "create", !.pc = "findBoard", !.user = u, !.boardId = b, !.column = col]]
  /\ UNCHANGED <<boardsCol, teamsCol, tasksCol, nextId, ws, boardConnections, inbox>>

\* PUT /tasks/:taskId and DELETE /tasks/:taskId up to their first await
RecvUpdate(h, u, id, col) ==
  /\ CanStart(h)
  /\ req' = [req EXCEPT ![h] =
       [FreeSlot EXCEPT !.kind = "update", !.pc = "findTask", !.user = u, !.id = id, !.column = col]]
  /\ UNCHANGED <<boardsCol, teamsCol, tasksCol, nextId, ws, boardConnections, inbox>>

RecvDelete(h, u, id) ==
  /\ CanStart(h)
  /\ req' = [req EXCEPT ![h] =
       [FreeSlot EXCEPT !.kind = "delete", !.pc = "findTask", !.user = u, !.id = id]]
  /\ UNCHANGED <<boardsCol, teamsCol, tasksCol, nextId, ws, boardConnections, inbox>>

\* (mutant) a request for a task that is not stored is answered as a success
RestFindTaskLenient(h) ==
  /\ req[h].kind \in {"update", "delete"}
  /\ req[h].pc = "findTask"
  /\ LET task == tasksCol[req[h].id]
     IN req' = [req EXCEPT ![h] =
          IF task.id = None THEN Returned(req[h].kind, req[h].id, "200")
          ELSE [@ EXCEPT !.pc = "findBoard", !.task = task, !.boardId = task.boardId]]
  /\ UNCHANGED <<boardsCol, teamsCol, tasksCol, nextId, ws, boardConnections, inbox>>

\* const task = await tasksCol.findOne({ id: taskId }); 404 when there is none
RestFindTask(h) ==
  /\ req[h].kind \in {"update", "delete"}
  /\ req[h].pc = "findTask"
  /\ LET task == tasksCol[req[h].id]
     IN req' = [req EXCEPT ![h] =
          IF task.id = None THEN Returned(req[h].kind, req[h].id, "404")
          ELSE [@ EXCEPT !.pc = "findBoard", !.task = task, !.boardId = task.boardId]]
  /\ UNCHANGED <<boardsCol, teamsCol, tasksCol, nextId, ws, boardConnections, inbox>>

\* const board = await boardsCol.findOne({ id }): 404 when there is none, 403
\* for a personal board of another user; a board with a team goes on to the
\* team lookup
RestFindBoard(h) ==
  /\ req[h].kind \in {"create", "update", "delete"}
  /\ req[h].pc = "findBoard"
  /\ LET board == boardsCol[req[h].boardId]
         r == [req[h] EXCEPT !.board = board]
     IN req' = [req EXCEPT ![h] =
          IF board.id = None THEN Returned(r.kind, r.id, "404")
          ELSE IF board.isPersonal /\ board.ownerId # r.user THEN Returned(r.kind, r.id, "403")
          ELSE IF ~board.isPersonal /\ board.teamId # None THEN [r EXCEPT !.pc = "findTeam"]
          ELSE AfterRestAccess(r)]
  /\ UNCHANGED <<boardsCol, teamsCol, tasksCol, nextId, ws, boardConnections, inbox>>

\* const team = await teamsCol.findOne({ id: board.teamId, members: userId })
RestFindTeam(h) ==
  /\ req[h].kind \in {"create", "update", "delete"}
  /\ req[h].pc = "findTeam"
  /\ req' = [req EXCEPT ![h] =
       IF TeamMember(req[h].board, req[h].user) THEN AfterRestAccess(req[h])
       ELSE Returned(req[h].kind, req[h].id, "403")]
  /\ UNCHANGED <<boardsCol, teamsCol, tasksCol, nextId, ws, boardConnections, inbox>>

\* maxOrderDoc[0]?.order != null ? maxOrderDoc[0].order + 1 : 0, over
\* find({ boardId, column }).sort({ order: -1 }).limit(1)
NextOrder(b, col) ==
  LET same == {t \in TasksOf(b) : t.column = col}
  IN IF same = {} THEN 0
     ELSE (CHOOSE t \in same : \A x \in same : x.order <= t.order).order + 1

\* the find for the largest order resolves; the task is built with a fresh
\* uuid and insertOne is issued
CreateFindMax(h) ==
  /\ req[h].kind = "create"
  /\ req[h].pc = "findMax"
  /\ nextId' = nextId + 1
  /\ LET r == req[h]
     IN req' = [req EXCEPT ![h] = [r EXCEPT !.pc = "insertOne",
          !.task = Task(NewIds[nextId + 1], r.boardId, r.column, NextOrder(r.boardId, r.column))]]
  /\ UNCHANGED <<boardsCol, teamsCol, tasksCol, ws, boardConnections, inbox>>

\* await tasksCol.insertOne(task)
CreateInsert(h) ==
  /\ req[h].kind = "create"
  /\ req[h].pc = "insertOne"
  /\ tasksCol' = [tasksCol EXCEPT ![req[h].task.id] = req[h].task]
  /\ req' = [req EXCEPT ![h].pc = "bcast"]
  /\ UNCHANGED <<boardsCol, teamsCol, nextId, ws, boardConnections, inbox>>

\* broadcastToBoard(boardId, { type: "task_created", task, boardId }); res.json(task)
CreateBroadcast(h) ==
  /\ req[h].kind = "create"
  /\ req[h].pc = "bcast"
  /\ inbox' = BroadcastToBoard(req[h].boardId,
                               Msg("task_created", req[h].boardId, << >>, req[h].task, None))
  /\ req' = [req EXCEPT ![h] = Returned("create", req[h].task.id, "200")]
  /\ UNCHANGED <<boardsCol, teamsCol, tasksCol, nextId, ws, boardConnections>>

\* await tasksCol.updateOne({ id: taskId }, { $set: updateData }); a body
\* without a column (None) sets only fields that are not modelled
UpdateWrite(h) ==
  /\ req[h].kind = "update"
  /\ req[h].pc = "updateOne"
  /\ tasksCol' = IF tasksCol[req[h].id].id # None /\ req[h].column # None
                 THEN [tasksCol EXCEPT ![req[h].id].column = req[h].column]
                 ELSE tasksCol
  /\ req' = [req EXCEPT ![h].pc = "findOne"]
  /\ UNCHANGED <<boardsCol, teamsCol, nextId, ws, boardConnections, inbox>>

\* const updatedTask = await tasksCol.findOne({ id: taskId })
UpdateFindOne(h) ==
  /\ req[h].kind = "update"
  /\ req[h].pc = "findOne"
  /\ req' = [req EXCEPT ![h] = [@ EXCEPT !.pc = "bcast", !.updatedTask = tasksCol[req[h].id]]]
  /\ UNCHANGED <<boardsCol, teamsCol, tasksCol, nextId, ws, boardConnections, inbox>>

\* broadcastToBoard(task.boardId, { type: "task_updated", task: updatedTask,
\* boardId: task.boardId }); res.json(updatedTask)
UpdateBroadcast(h) ==
  /\ req[h].kind = "update"
  /\ req[h].pc = "bcast"
  /\ inbox' = BroadcastToBoard(req[h].task.boardId,
                               Msg("task_updated", req[h].task.boardId, << >>, req[h].updatedTask, None))
  /\ req' = [req EXCEPT ![h] = Returned("update", req[h].id, "200")]
  /\ UNCHANGED <<boardsCol, teamsCol, tasksCol, nextId, ws, boardConnections>>

\* await tasksCol.deleteOne({ id: taskId }): its deletedCount is not read
DeleteWrite(h) ==
  /\ req[h].kind = "delete"
  /\ req[h].pc = "deleteOne"
  /\ tasksCol' = [tasksCol EXCEPT ![req[h].id] = NoTask]
  /\ req' = [req EXCEPT ![h].pc = "bcast"]
  /\ UNCHANGED <<boardsCol, teamsCol, nextId, ws, boardConnections, inbox>>

\* broadcastToBoard(task.boardId, { type: "task_deleted", id: taskId,
\* boardId: task.boardId }); res.json({ success: true })
DeleteBroadcast(h) ==
  /\ req[h].kind = "delete"
  /\ req[h].pc = "bcast"
  /\ inbox' = BroadcastToBoard(req[h].task.boardId,
                               Msg("task_deleted", req[h].task.boardId, << >>, NoTask, req[h].id))
  /\ req' = [req EXCEPT ![h] = Returned("delete", req[h].id, "200")]
  /\ UNCHANGED <<boardsCol, teamsCol, tasksCol, nextId, ws, boardConnections>>

\* (mutant) the write is not awaited: its rejection goes unnoticed and the
\* route carries on
WriteFailsUnnoticed(h) ==
  /\ req[h].kind \in {"create", "update", "delete"}
  /\ req[h].pc \in {"insertOne", "updateOne", "deleteOne"}
  /\ req' = [req EXCEPT ![h].pc = IF req[h].kind = "update" THEN "findOne" ELSE "bcast"]
  /\ UNCHANGED <<boardsCol, teamsCol, tasksCol, nextId, ws, boardConnections, inbox>>

\* the awaited insertOne, updateOne or deleteOne rejects (the database is
\* unreachable, the write is refused): nothing is stored, and the catch of the
\* route answers 500
WriteFails(h) ==
  /\ req[h].kind \in {"create", "update", "delete"}
  /\ req[h].pc \in {"insertOne", "updateOne", "deleteOne"}
  /\ req' = [req EXCEPT ![h] = Returned(req[h].kind, req[h].id, "500")]
  /\ UNCHANGED <<boardsCol, teamsCol, tasksCol, nextId, ws, boardConnections, inbox>>

\* ------------------------------------------------------------ team routes
\* The routes that change who may access a team's boards: the invitation adds
\* a member, the deletion of the team removes the team, then its boards, then
\* their tasks.  Neither broadcasts, and no step reads what they answered, so
\* a team route that has returned leaves its slot free again.

\* teamsCol.findOne({ id: teamId })
TeamOf(t) == IF t \in DOMAIN teamsCol THEN teamsCol[t] ELSE NoTeam

\* POST /teams/:teamId/invite up to its first await; the body's email is
\* modelled by the user it belongs to
RecvInvite(h, u, teamId, invitee) ==
  /\ CanStart(h)
  /\ req' = [req EXCEPT ![h] =
       [FreeSlot EXCEPT !.kind = "invite", !.pc = "findTeam", !.user = u, !.id = teamId, !.invitee = invitee]]
  /\ UNCHANGED <<boardsCol, teamsCol, tasksCol, nextId, ws, boardConnections, inbox>>

\* DELETE /teams/:teamId up to its first await
RecvDeleteTeam(h, u, teamId) ==
  /\ CanStart(h)
  /\ req' = [req EXCEPT ![h] =
       [FreeSlot EXCEPT !.kind = "deleteTeam", !.pc = "findTeam", !.user = u, !.id = teamId]]
  /\ UNCHANGED <<boardsCol, teamsCol, tasksCol, nextId, ws, boardConnections, inbox>>

\* const team = await teamsCol.findOne({ id: teamId }): 404 when there is
\* none, 403 when the requester does not own it
TeamFindTeam(h) ==
  /\ req[h].kind \in {"invite", "deleteTeam"}
  /\ req[h].pc = "findTeam"
  /\ LET team == TeamOf(req[h].id)
     IN req' = [req EXCEPT ![h] =
          IF team.id = None \/ team.ownerId # req[h].user THEN FreeSlot
          ELSE [@ EXCEPT !.team = team,
                         !.pc = IF req[h].kind = "invite" THEN "findUser" ELSE "deleteTeam"]]
  /\ UNCHANGED <<boardsCol, teamsCol, tasksCol, nextId, ws, boardConnections, inbox>>

\* const userToAdd = await usersCol.findOne({ email }); 400 when the team
\* document read before lists the user
InviteFindUser(h) ==
  /\ req[h].kind = "invite"
  /\ req[h].pc = "findUser"
  /\ req' = [req EXCEPT ![h] =
       IF req[h].invitee \in req[h].team.members THEN FreeSlot ELSE [@ EXCEPT !.pc = "push"]]
  /\ UNCHANGED <<boardsCol, teamsCol, tasksCol, nextId, ws, boardConnections, inbox>>

\* await teamsCol.updateOne({ id: teamId }, { $push: { members: userToAdd.id } })
InvitePush(h) ==
  /\ req[h].kind = "invite"
  /\ req[h].pc = "push"
  /\ teamsCol' = [t \in DOMAIN teamsCol |->
       IF teamsCol[t].id = req[h].id
       THEN [teamsCol[t] EXCEPT !.members = @ \cup {req[h].invitee}]
       ELSE teamsCol[t]]
  /\ req' = [req EXCEPT ![h] = FreeSlot]
  /\ UNCHANGED <<boardsCol, tasksCol, nextId, ws, boardConnections, inbox>>

\* await teamsCol.deleteOne({ id: teamId })
DeleteTeamWrite(h) ==
  /\ req[h].kind = "deleteTeam"
  /\ req[h].pc = "deleteTeam"
  /\ teamsCol' = [t \in DOMAIN teamsCol |-> IF teamsCol[t].id = req[h].id THEN NoTeam ELSE teamsCol[t]]
  /\ req' = [req EXCEPT ![h].pc = "findBoards"]
  /\ UNCHANGED <<boardsCol, tasksCol, nextId, ws, boardConnections, inbox>>

\* const teamBoards = await boardsCol.find({ teamId }).toArray()
DeleteTeamFindBoards(h) ==
  /\ req[h].kind = "deleteTeam"
  /\ req[h].pc = "findBoards"
  /\ req' = [req EXCEPT ![h] = [@ EXCEPT !.pc = "deleteBoards",
       !.boardIds = {b \in DOMAIN boardsCol : boardsCol[b].id # None /\ boardsCol[b].teamId = req[h].id}]]
  /\ UNCHANGED <<boardsCol, teamsCol, tasksCol, nextId, ws, boardConnections, inbox>>

\* await boardsCol.deleteMany({ teamId })
DeleteTeamBoards(h) ==
  /\ req[h].kind = "deleteTeam"
  /\ req[h].pc = "deleteBoards"
  /\ boardsCol' = [b \in DOMAIN boardsCol |->
       IF boardsCol[b].id # None /\ boardsCol[b].teamId = req[h].id THEN NoBoard ELSE boardsCol[b]]
  /\ req' = [req EXCEPT ![h].pc = "deleteTasks"]
  /\ UNCHANGED <<teamsCol, tasksCol, nextId, ws, boardConnections, inbox>>

\* await tasksCol.deleteMany({ boardId: { $in: boardIds } })
DeleteTeamTasks(h) ==
  /\ req[h].kind = "deleteTeam"
  /\ req[h].pc = "deleteTasks"
  /\ tasksCol' = [t \in DOMAIN tasksCol |->
       IF tasksCol[t].id # None /\ tasksCol[t].boardId \in req[h].boardIds THEN NoTask ELSE tasksCol[t]]
  /\ req' = [req EXCEPT ![h] = FreeSlot]
  /\ UNCHANGED <<boardsCol, teamsCol, nextId, ws, boardConnections, inbox>>

\* ----------------------------------------------------------- board routes
\* POST /boards up to its first await: the body's teamId (None when absent)
\* and isPersonal; with a teamId the requester's membership is looked up
\* first.  The board is given the id "bx", so one board can be created.
RecvCreateBoard(h, u, teamId, isPersonal) ==
  /\ CanStart(h)
  /\ boardsCol["bx"].id = None
  /\ \A g \in Slots : req[g].kind # "createBoard"
  /\ req' = [req EXCEPT ![h] =
       [FreeSlot EXCEPT !.kind = "createBoard", !.user = u,
          !.pc = IF teamId # None THEN "findTeam" ELSE "insertOne",
          !.board = [id |-> "bx", teamId |-> teamId, ownerId |-> u, isPersonal |-> isPersonal]]]
  /\ UNCHANGED <<boardsCol, teamsCol, tasksCol, nextId, ws, boardConnections, inbox>>

\* const team = await teamsCol.findOne({ id: teamId, members: userId }); 403
\* when there is none
BoardFindTeam(h) ==
  /\ req[h].kind = "createBoard"
  /\ req[h].pc = "findTeam"
  /\ req' = [req EXCEPT ![h] =
       IF TeamMember(req[h].board, req[h].user) THEN [@ EXCEPT !.pc = "insertOne"] ELSE FreeSlot]
  /\ UNCHANGED <<boardsCol, teamsCol, tasksCol, nextId, ws, boardConnections, inbox>>

\* await boardsCol.insertOne(board); res.json(board)
BoardInsert(h) ==
  /\ req[h].kind = "createBoard"
  /\ req[h].pc = "insertOne"
  /\ boardsCol' = [boardsCol EXCEPT ![req[h].board.id] = req[h].board]
  /\ req' = [req EXCEPT ![h] = FreeSlot]
  /\ UNCHANGED <<teamsCol, tasksCol, nextId, ws, boardConnections, inbox>>

\* ------------------------------------------------------------------ inputs
Tuple(id, col, ord) == [id |-> id, column |-> col, order |-> ord]

\* the reorder batches clients submit: the scenario of the design (A to
\* inprogress, C to the top of todo), a batch that conflicts with it on both
\* tasks, and one that names D, the task of board b2
ScenarioBatch == <<Tuple("A", "inprogress", 0), Tuple("C", "todo", 0)>>
SwapBatch == <<Tuple("C", "todo", 0), Tuple("A", "todo", 1)>>
ForeignBatch == <<Tuple("D", "done", 1)>>
\* a batch that moves C to the top of todo and leaves A where it is, at the
\* same order
TieBatch == <<Tuple("C", "todo", 0)>>
\* a tasks array whose second element is null
PoisonBatch == <<Tuple("A", "inprogress", 0), NullEntry, Tuple("C", "todo", 0)>>
\* a batch whose second tuple names a task that is not stored
GapBatch == <<Tuple("A", "inprogress", 0), Tuple("N2", "todo", 5), Tuple("C", "todo", 0)>>
Batches == {ScenarioBatch, SwapBatch, ForeignBatch}

\* ------------------------------------------------------------ specification
\* The reorder protocol under concurrency: connections come and go on board b1
\* (or with no board) while up to MaxReq reorder messages are handled.
ConnectStep == \E c \in SyncConns, token \in Tokens, b \in {"b1", None} : Connect(c, token, b)
CloseStep == \E c \in Conns : PeerClose(c) \/ SocketError(c) \/ SocketClose(c)
\* The continuations of one reorder handler: each runs once its await resolved.
ReorderRunOf(h) ==
  \/ ReorderFindBoard(h)
  \/ ReorderFindTeam(h)
  \/ ReorderApply(h)
  \/ ReorderRead(h)
  \/ ReorderBroadcast(h)

ReorderStep ==
  \E h \in Slots :
    \/ \E c \in SyncConns, b \in BoardKeys \cup {None}, updates \in Batches : RecvReorder(h, c, b, updates)
    \/ ReorderRunOf(h)

Next == ConnectStep \/ CloseStep \/ ReorderStep

Spec == Init /\ [][Next]_vars

\* The same steps where every database call of a started reorder handler is
\* answered and the event loop then runs the handler's continuation.
SpecLive == Init /\ [][Next]_vars /\ \A h \in Slots : WF_vars(ReorderRunOf(h))

\* Task mutations over REST beside reorder messages, on two boards with
\* connections on both (and on none); sockets close abruptly.
RestConnectStep == \E c \in SyncConns, token \in Users, b \in {"b1", "b2", None} : Connect(c, token, b)
RestRecvStep ==
  \E h \in Slots :
    \/ \E c \in SyncConns, b \in {"b1", "b2"} : RecvReorder(h, c, b, ForeignBatch)
    \/ \E u \in Users, b \in {"b1", "b2"} : RecvCreate(h, u, b, "todo")
    \/ \E u \in Users, id \in {"A", "D"} : RecvUpdate(h, u, id, "done")
    \/ \E u \in Users, id \in {"A", "D"} : RecvDelete(h, u, id)
RestStep ==
  \E h \in Slots :
    \/ RestFindTask(h)
    \/ RestFindBoard(h)
    \/ RestFindTeam(h)
    \/ CreateFindMax(h)
    \/ CreateInsert(h)
    \/ CreateBroadcast(h)
    \/ UpdateWrite(h)
    \/ UpdateFindOne(h)
    \/ UpdateBroadcast(h)
    \/ DeleteWrite(h)
    \/ DeleteBroadcast(h)
ReorderRun == \E h \in Slots : ReorderRunOf(h)

RestCloseStep == \E c \in Conns : SocketClose(c)

NextRest == RestConnectStep \/ RestCloseStep \/ RestRecvStep \/ RestStep \/ ReorderRun

SpecRest == Init /\ [][NextRest]_vars

\* The registry alone: every handshake outcome on every board key, and every
\* way a socket closes.
RegistryConnectStep ==
  \E c \in Conns, token \in Tokens \cup {None}, b \in BoardKeys \cup {None} : Connect(c, token, b)

NextRegistry == RegistryConnectStep \/ CloseStep

SpecRegistry == Init /\ [][NextRegistry]_vars

\* The scenario of the design: board b1 holds A (todo, 0) and C (todo, 1), and
\* one client that may access b1 submits ScenarioBatch for it, while
\* connections come and go on both boards.
ScenarioSubmit ==
  \E c \in Conns : ws[c].userId = "u1" /\ RecvReorder(1, c, "b1", ScenarioBatch)

ScenarioConnectStep == \E c \in Conns, token \in Users, b \in {"b1", "b2", None} : Connect(c, token, b)

NextScenario == ScenarioConnectStep \/ CloseStep \/ ScenarioSubmit \/ ReorderRun

SpecScenario == Init /\ [][NextScenario]_vars

\* The handshake's credential check under load: connections present a token of
\* u1, a token that fails verification or none, all for board b1, and reorder
\* messages for b1 arrive on every connection that has the message handler.
AuthConnectStep == \E c \in Conns, token \in {"u1", "bad", None} : Connect(c, token, "b1")

AuthRecvStep == \E h \in Slots, c \in Conns : RecvReorder(h, c, "b1", ScenarioBatch)

NextAuth == AuthConnectStep \/ CloseStep \/ AuthRecvStep \/ ReorderRun

SpecAuth == Init /\ [][NextAuth]_vars

\* Access that changes under open connections: u2's connections are opened
\* on b1, the board of team tm1, and send batches for it, while the owner of
\* tm1 invites u2 to the team and deletes the team.  The team routes start
\* once the connections have been accepted.
AccessConnectStep == \E c \in SyncConns : Connect(c, "u2", "b1")

AccessRecvStep == \E h \in Slots, c \in SyncConns : RecvReorder(h, c, "b1", ScenarioBatch)

AccessTeamRecvStep ==
  /\ \A c \in SyncConns : ws[c].readyState # Connecting
  /\ \E h \in Slots, u \in Users :
       \/ RecvInvite(h, u, "tm1", "u2")
       \/ RecvDeleteTeam(h, u, "tm1")

TeamRun ==
  \E h \in Slots :
    \/ TeamFindTeam(h)
    \/ InviteFindUser(h)
    \/ InvitePush(h)
    \/ DeleteTeamWrite(h)
    \/ DeleteTeamFindBoards(h)
    \/ DeleteTeamBoards(h)
    \/ DeleteTeamTasks(h)

NextAccess == AccessConnectStep \/ AccessRecvStep \/ AccessTeamRecvStep \/ TeamRun \/ ReorderRun

SpecAccess == Init /\ [][NextAccess]_vars

\* Creates alone, one after another or concurrently, in the todo column of
\* both boards, with clients connected.
CreateRecvStep == \E h \in Slots, u \in Users, b \in {"b1", "b2"} : RecvCreate(h, u, b, "todo")

CreateRun ==
  \E h \in Slots :
    \/ RestFindBoard(h)
    \/ RestFindTeam(h)
    \/ CreateFindMax(h)
    \/ CreateInsert(h)
    \/ CreateBroadcast(h)

NextCreate == RestConnectStep \/ RestCloseStep \/ CreateRecvStep \/ CreateRun

SpecCreate == Init /\ [][NextCreate]_vars

\* Batches with a tuple for a task that is not stored: u1's connections on b1
\* submit GapBatch and SwapBatch for b1, and every handler that has started is
\* run to its end.
GapConnectStep == \E c \in SyncConns : Connect(c, "u1", "b1")

GapRecvStep ==
  \E h \in Slots, c \in SyncConns, updates \in {GapBatch, SwapBatch} : RecvReorder(h, c, "b1", updates)

NextGap == GapConnectStep \/ CloseStep \/ GapRecvStep \/ ReorderRun

SpecGap == Init /\ [][NextGap]_vars /\ \A h \in Slots : WF_vars(ReorderRunOf(h))

\* Messages out of shape: u1's connections on b1 send data that does not
\* parse or is no reorder message, reorder messages without a tasks field and
\* reorder messages whose tasks hold a null after a valid tuple, beside
\* well-formed batches.
MalformedRecvStep ==
  \E h \in Slots, c \in SyncConns :
    \/ RecvOther(h, c)
    \/ RecvReorderNoTasks(h, c, "b1")
    \/ \E updates \in {PoisonBatch, SwapBatch} : RecvReorder(h, c, "b1", updates)

NextMalformed == GapConnectStep \/ CloseStep \/ MalformedRecvStep \/ ReorderRun

SpecMalformed == Init /\ [][NextMalformed]_vars

\* Reads of a board on which two tasks hold the same column and order: u1's
\* connections on b1 submit TieBatch, and ForeignBatch, whose write matches no
\* task of b1.
TieRecvStep ==
  \E h \in Slots, c \in SyncConns, updates \in {TieBatch, ForeignBatch} : RecvReorder(h, c, "b1", updates)

NextTie == GapConnectStep \/ CloseStep \/ TieRecvStep \/ ReorderRun

SpecTie == Init /\ [][NextTie]_vars

\* Task mutations of b1 whose writes may fail: u1's connections are on b1,
\* both users create tasks on b1 and update and delete A.
CommitRecvStep ==
  \E h \in Slots, u \in Users :
    \/ RecvCreate(h, u, "b1", "todo")
    \/ RecvUpdate(h, u, "A", "done")
    \/ RecvDelete(h, u, "A")

WriteFailStep == \E h \in Slots : WriteFails(h)

NextCommit == GapConnectStep \/ RestCloseStep \/ CommitRecvStep \/ RestStep \/ WriteFailStep

SpecCommit == Init /\ [][NextCommit]_vars

\* The two access checks side by side: a board of any kind (personal or not,
\* with the team tm1 or with none) is created, and both users reorder its
\* tasks over their connections and create tasks on it over REST, as they do
\* on b1 and b2.
EquivConnectStep == \E c \in SyncConns, u \in Users : Connect(c, u, "bx")

EquivBoardStep ==
  \E h \in Slots, u \in Users, teamId \in {"tm1", None}, isPersonal \in BOOLEAN :
    RecvCreateBoard(h, u, teamId, isPersonal)

BoardRun == \E h \in Slots : BoardFindTeam(h) \/ BoardInsert(h)

EquivRecvStep ==
  \E h \in Slots, b \in BoardKeys :
    \/ \E c \in SyncConns : RecvReorder(h, c, b, TieBatch)
    \/ \E u \in Users : RecvCreate(h, u, b, "todo")

NextEquiv == EquivConnectStep \/ EquivBoardStep \/ BoardRun \/ EquivRecvStep \/ ReorderRun \/ CreateRun

SpecEquiv == Init /\ [][NextEquiv]_vars

\* ---------------------------------------------------------------- claims
\* what a step appended to connection c's inbox
Delta(c) == SubSeq(inbox'[c], Len(inbox[c]) + 1, Len(inbox'[c]))

\* the connections registered to board b whose socket is open
OpenClients(b) == {c \in ClientsOf(b) : ws[c].readyState = Open}

InFlight(h) == req[h].pc \notin {"free", "done"}

\* principal u may access the board named b: b is stored, and u owns it if it
\* is personal and is a member of its team if it is not
MayAccess(u, b) ==
  /\ u \in Users
  /\ b \in DOMAIN boardsCol
  /\ boardsCol[b].id # None
  /\ \/ boardsCol[b].isPersonal /\ boardsCol[b].ownerId = u
     \/ /\ ~boardsCol[b].isPersonal
        /\ \E t \in DOMAIN teamsCol :
             teamsCol[t].id = boardsCol[b].teamId /\ u \in teamsCol[t].members

Authorized(h) == req[h].kind = "reorder" /\ MayAccess(req[h].user, req[h].boardId)

\* C1: a reorder batch of a submitter who may access the claimed board is never
\* dropped; its read is taken only when all its writes have completed and is
\* the board's stored tasks in ascending (column, order); and its broadcast
\* puts exactly that list, as one tasks_reorder message, on every open
\* connection registered to the board; and every such handler does publish.
C1_Step(h) ==
  LET r == req[h]
      b == r.boardId
  IN /\ (Authorized(h) /\ InFlight(h) /\ req'[h].pc = "done") =>
          (r.pc = "bcast" /\ req'[h].result = "published")
     /\ (r.kind = "reorder" /\ r.pc # "bcast" /\ req'[h].pc = "bcast") =>
          /\ r.i = Len(r.updates)
          /\ req'[h].tasks \in SortedLists(TasksOf(b))
     /\ (r.kind = "reorder" /\ r.pc = "bcast" /\ req'[h].pc = "done") =>
          \A c \in OpenClients(b) : Delta(c) = <<Msg("tasks_reorder", b, r.tasks, NoTask, None)>>

C1_ReorderPublishesCanonical ==
  /\ [][\A h \in Slots : C1_Step(h)]_vars
  /\ \A h \in Slots : (Authorized(h) /\ InFlight(h)) ~> (req[h].result = "published")

C1_Witness ==
  \E h \in Slots, c \in Conns :
    /\ req[h].result = "published"
    /\ c \in OpenClients("b1")
    /\ inbox[c] # << >>
    /\ inbox[c][Len(inbox[c])].tasks \in SortedLists(TasksOf("b1"))
    /\ tasksCol # InitTasks

\* C2: a reorder message whose submitter has no principal, names no board,
\* names a board that is not stored or may not access it never reaches the
\* writes, and no step of its handler changes a stored task or sends anything.
C2_NoEffect(h) ==
  (req'[h] # req[h] /\ ~Authorized(h)) => (tasksCol' = tasksCol /\ inbox' = inbox)

C2_UnauthorizedReorderDropped ==
  /\ [](\A h \in Slots :
          (req[h].kind = "reorder" /\ req[h].pc \in {"apply", "read", "bcast"}) => Authorized(h))
  /\ [][\A h \in Slots : C2_NoEffect(h)]_vars

C2_Witness ==
  \E h \in Slots, c \in Conns :
    /\ req[h].kind = "reorder" /\ req[h].result = "dropped"
    /\ \E g \in Slots : req[g].pc = "findTeam" /\ ~Authorized(g)
    /\ c \in OpenClients("b1")
    /\ inbox[c] = << >>
    /\ tasksCol = InitTasks

\* C4: in every step, two connections that are registered to the same board
\* and open before and after it are sent the same messages, so connections
\* that stay registered receive the same sequence of tasks_reorder messages;
\* and any two open connections of a board that have received one hold the
\* same last message.
C4_SameDelta ==
  \A b \in BoardKeys :
    \A c1, c2 \in OpenClients(b) :
      (c1 \in OpenClients(b)' /\ c2 \in OpenClients(b)') => Delta(c1) = Delta(c2)

C4_SameLast ==
  \A b \in BoardKeys :
    \A c1, c2 \in OpenClients(b) :
      (inbox[c1] # << >> /\ inbox[c2] # << >>) =>
        inbox[c1][Len(inbox[c1])] = inbox[c2][Len(inbox[c2])]

C4_SameReorderSequence == [](C4_SameLast) /\ [][C4_SameDelta]_vars

C4_Witness ==
  /\ {1, 2} \subseteq OpenClients("b1")
  /\ Len(inbox[1]) = 2
  /\ inbox[1] = inbox[2]
  /\ inbox[1][1] # inbox[1][2]

\* C5: once no reorder handler is in flight, the last message every open
\* connection of a board holds is the board's stored tasks in canonical order.
C5_LastMessageIsCanonical ==
  (\A h \in Slots : ~InFlight(h)) =>
    \A b \in BoardKeys :
      \A c \in OpenClients(b) :
        inbox[c] # << >> => inbox[c][Len(inbox[c])].tasks \in SortedLists(TasksOf(b))

\* C3: every message on a connection carries the board id the connection is
\* registered under: a connection of one board never receives a message of
\* another board.
C3_BoardIsolation ==
  \A c \in Conns : \A k \in 1..Len(inbox[c]) : inbox[c][k].boardId = ws[c].boardId

C3_Witness ==
  \E c1, c2 \in Conns :
    /\ ws[c1].boardId = "b1" /\ inbox[c1] # << >>
    /\ ws[c2].boardId = "b2" /\ inbox[c2] # << >>
    /\ \E k \in 1..Len(inbox[c2]) : inbox[c2][k].type = "tasks_reorder"

\* C6 (as claimed): a connection is sent at most one task_deleted event for a
\* task, only for a task of its own board, and once a delete request has
\* answered 200 the task is not stored.
DeletedEvents(c, id) ==
  {k \in 1..Len(inbox[c]) : inbox[c][k].type = "task_deleted" /\ inbox[c][k].id = id}

C6_DeleteBroadcastsOnce ==
  /\ \A c \in Conns, id \in TaskIds :
       /\ Cardinality(DeletedEvents(c, id)) <= 1
       /\ \A k \in DeletedEvents(c, id) : inbox[c][k].boardId = ws[c].boardId
  /\ \A h \in Slots :
       (req[h].kind = "delete" /\ req[h].result = "200") => tasksCol[req[h].id].id = None

\* C7 (as claimed): the list the scenario's broadcast carries is [C, A].
ReorderMessages(c) ==
  {inbox[c][k] : k \in {j \in 1..Len(inbox[c]) : inbox[c][j].type = "tasks_reorder"}}

ScenarioMessages == UNION {ReorderMessages(c) : c \in Conns}

C7_ScenarioOrderAsClaimed ==
  \A m \in ScenarioMessages :
    m.tasks = <<Task("C", "b1", "todo", 0), Task("A", "b1", "inprogress", 0)>>

\* C7 (amended): the list the scenario's broadcast carries is
\* [A(inprogress, 0), C(todo, 0)], the column being compared as a string, and
\* the broadcast puts it on every open connection of b1.
C7_ScenarioList == <<Task("A", "b1", "inprogress", 0), Task("C", "b1", "todo", 0)>>

C7_ScenarioOrder ==
  /\ [](\A m \in ScenarioMessages : m.tasks = C7_ScenarioList /\ m.boardId = "b1")
  /\ [][(req[1].pc = "bcast" /\ req'[1].pc = "done") =>
          \A c \in OpenClients("b1") :
            Delta(c) = <<Msg("tasks_reorder", "b1", C7_ScenarioList, NoTask, None)>>]_vars

C7_Witness ==
  /\ req[1].result = "published"
  /\ \E c1, c2 \in OpenClients("b1") : c1 # c2 /\ inbox[c1] # << >> /\ inbox[c2] # << >>

\* C8: a connection with a principal and no board is open once the handshake
\* has run, and nothing is ever sent to it.
Boardless(c) == ws[c].userId # None /\ ws[c].boardId = None

C8_BoardlessReceivesNothing ==
  /\ [](\A c \in Conns : Boardless(c) => inbox[c] = << >>)
  /\ [][\A c \in Conns :
          (ws[c].readyState = Connecting /\ Boardless(c)') => ws'[c].readyState = Open]_vars

C8_Witness ==
  \E c, d \in Conns :
    /\ Boardless(c) /\ ws[c].readyState = Open /\ inbox[c] = << >>
    /\ Len(inbox[d]) = 2
    /\ tasksCol # InitTasks

\* C9: each board's set is exactly the connections admitted under that board
\* whose close event has not run, and a step that changes one board's set
\* leaves every other board's set as it was.
Live(b) == {c \in Conns : ws[c].boardId = b /\ ws[c].readyState \in {Open, Closing}}

C9_RegistryIsNetEffect ==
  /\ [](\A b \in BoardKeys : ClientsOf(b) = Live(b))
  /\ [][\A b1, b2 \in BoardKeys :
          (b1 # b2 /\ ClientsOf(b1)' # ClientsOf(b1)) => ClientsOf(b2)' = ClientsOf(b2)]_vars

C9_Witness ==
  \E c1, c2, c3 \in Conns :
    /\ ws[c1].readyState = Closed
    /\ c1 < c2
    /\ ClientsOf("b1") = {c2}
    /\ ClientsOf("b2") = {c3}
    /\ "b1" \in DOMAIN boardConnections

\* C10: a connection is in at most one board's set, and that board is the one
\* recorded on it at the handshake.
C10_SingleBoardScope ==
  \A c \in Conns :
    /\ Cardinality({b \in DOMAIN boardConnections : c \in boardConnections[b]}) <= 1
    /\ \A b \in DOMAIN boardConnections : c \in boardConnections[b] => ws[c].boardId = b

C10_Witness ==
  \E c1, c2 \in Conns :
    /\ c1 \in ClientsOf("b1") /\ ws[c1].readyState = Open
    /\ c2 \in ClientsOf("bx") /\ ws[c2].readyState = Closing

\* C11: a connection whose handshake presented no token or one that fails
\* verification is put in CLOSING by the handshake itself, has no principal and
\* no board, is in no board's set and is sent nothing; and a reorder message
\* that gets past the handler's first test came over a connection whose token
\* verified, any other being dropped at once with the store untouched.
Unverified(c) == ws[c].readyState # Connecting /\ ws[c].token \notin Users

C11_Refused(c) ==
  /\ ws[c].readyState \in {Closing, Closed}
  /\ ws[c].userId = None
  /\ ws[c].boardId = None
  /\ \A b \in DOMAIN boardConnections : c \notin boardConnections[b]
  /\ inbox[c] = << >>

C11_Step ==
  /\ \A c \in Conns :
       (ws[c].readyState = Connecting /\ Unverified(c)') => ws'[c].readyState = Closing
  /\ \A h \in Slots :
       (req[h].pc = "free" /\ req'[h].kind = "reorder") =>
         \/ req'[h].result = "dropped" /\ tasksCol' = tasksCol /\ inbox' = inbox
         \/ ws[req'[h].conn].token \in Users

C11_BadCredentialNeverAdmitted ==
  /\ [](\A c \in Conns : Unverified(c) => C11_Refused(c))
  /\ [][C11_Step]_vars

C11_Witness ==
  \E c1, c2, c3 \in Conns, h \in Slots :
    /\ c1 < c3 /\ c2 < c3
    /\ ws[c1].token = "bad" /\ ws[c1].readyState = Closing
    /\ ws[c2].readyState = Closing /\ ~ws[c2].listening
    /\ c3 \in OpenClients("b1") /\ inbox[c3] # << >>
    /\ req[h].kind = "reorder" /\ req[h].result = "dropped"
    /\ tasksCol # InitTasks

\* C12 (as claimed): a connection whose token verified and whose board id names
\* no stored board, or a board its principal may not access, is in no board's
\* set and holds no message of that board.
NoAccess(c) ==
  /\ ws[c].userId # None
  /\ ws[c].boardId # None
  /\ ~MayAccess(ws[c].userId, ws[c].boardId)

C12_NoAccessNeverAdmitted ==
  \A c \in Conns :
    NoAccess(c) =>
      /\ \A b \in DOMAIN boardConnections : c \notin boardConnections[b]
      /\ \A k \in 1..Len(inbox[c]) : inbox[c][k].boardId # ws[c].boardId

\* C13 (as claimed): the step that admits a connection to a board's set puts
\* one init message on it, carrying the board's stored tasks in canonical
\* order, and no later message on a connection is an init message.
C13_InitOnAdmission ==
  /\ [][\A c \in Conns, b \in BoardKeys :
          (c \notin ClientsOf(b) /\ c \in ClientsOf(b)') =>
            \E found \in SortedLists(TasksOf(b)) :
              Delta(c) = <<Msg("init", b, found, NoTask, None)>>]_vars
  /\ [](\A c \in Conns : \A k \in 2..Len(inbox[c]) : inbox[c][k].type # "init")

\* C14: the step that closes a socket, whichever way the close came about
\* (the peer's close frame, a transport error, the transport ending), leaves it
\* in no board's set; a closed socket stays out of every set; and a message is
\* only ever put on a socket that is open, so no broadcast reaches a socket
\* after its close, nor between its error and its close.
C14_Step ==
  /\ \A c \in Conns :
       (ws[c].readyState # Closed /\ ws'[c].readyState = Closed) =>
         \A b \in DOMAIN boardConnections' : c \notin boardConnections'[b]
  /\ \A c \in Conns : Len(inbox'[c]) > Len(inbox[c]) => ws[c].readyState = Open

C14_RemovedOnClose ==
  /\ [](\A c \in Conns :
          ws[c].readyState = Closed =>
            /\ \A b \in DOMAIN boardConnections : c \notin boardConnections[b]
            /\ inbox[c] = << >>)
  /\ [][C14_Step]_vars

\* the connection that submitted a batch for b1, and so was registered to b1,
\* has closed before the batch's broadcast, which another client of b1 awaits
C14_Witness ==
  \E h \in Slots, c \in Conns :
    /\ req[h].pc = "bcast"
    /\ ws[req[h].conn].readyState = Closed
    /\ c \in OpenClients("b1")
    /\ inbox[c] # << >>

\* C15: the broadcast of any handler puts exactly one message on every open
\* connection of the board's set and none on a connection of the set that is
\* not open, wherever in the set the connections that are not open are.
C15_Step(h) ==
  (req[h].pc = "bcast" /\ req'[h].pc = "done") =>
    \A c \in ClientsOf(req[h].boardId) :
      IF ws[c].readyState = Open THEN Len(Delta(c)) = 1 ELSE Delta(c) = << >>

C15_UnwritableSkipped == [][\A h \in Slots : C15_Step(h)]_vars

\* c1 was added to b1's set before c2 and is still in it, no longer open, and
\* c2 has been sent more than c1: a broadcast skipped c1 and reached c2
C15_Witness ==
  \E c1, c2 \in Conns :
    /\ c1 < c2
    /\ c1 \in ClientsOf("b1") /\ ws[c1].readyState = Closing
    /\ c2 \in OpenClients("b1")
    /\ Len(inbox[c2]) > Len(inbox[c1])

\* C16: the step in which a reorder handler decides on access decides by what
\* the boards and teams collections hold at that step: it goes on to its
\* writes only if the submitter may access the board then, and it drops the
\* message, changing no task and sending nothing, only if the submitter may not.
C16_Step(h) ==
  LET r == req[h]
      deciding == r.kind = "reorder" /\ r.pc \in {"findBoard", "findTeam"}
  IN /\ (deciding /\ req'[h].pc \in {"apply", "read"}) => MayAccess(r.user, r.boardId)
     /\ (deciding /\ req'[h].pc = "done") =>
          /\ ~MayAccess(r.user, r.boardId)
          /\ tasksCol' = tasksCol
          /\ inbox' = inbox

C16_AccessReevaluated == [][\A h \in Slots : C16_Step(h)]_vars

\* u2, whose connections were open before it was invited, has had a batch
\* published; the team, its boards and their tasks have been deleted since,
\* and another batch of u2 awaits its board lookup
C16_Witness ==
  /\ \A c \in SyncConns : ws[c].readyState = Open /\ inbox[c] # << >>
  /\ req[1].result = "published"
  /\ TeamOf("tm1") = NoTeam
  /\ tasksCol["A"] = NoTask
  /\ req[2].kind = "reorder" /\ req[2].pc = "findBoard"

\* C17 (as claimed): the broadcast of a reorder handler whose submitter is open
\* puts the tasks_reorder message on the submitter's connection, whatever
\* board the connection was registered to.
C17_SubmitterAlwaysReceives ==
  [][\A h \in Slots :
       (req[h].kind = "reorder" /\ req[h].pc = "bcast" /\ req'[h].pc = "done"
          /\ ws[req[h].conn].readyState = Open) =>
         Delta(req[h].conn) = <<Msg("tasks_reorder", req[h].boardId, req[h].tasks, NoTask, None)>>]_vars

\* C17 (amended): the broadcast of a reorder handler whose submitter is open
\* puts the tasks_reorder message on the submitter's connection if the
\* connection is registered to the board the batch names, and puts nothing on
\* it if it is registered to another board or to none.
C17_Step(h) ==
  LET r == req[h]
  IN (r.kind = "reorder" /\ r.pc = "bcast" /\ req'[h].pc = "done" /\ ws[r.conn].readyState = Open) =>
       IF ws[r.conn].boardId = r.boardId
       THEN Delta(r.conn) = <<Msg("tasks_reorder", r.boardId, r.tasks, NoTask, None)>>
       ELSE Delta(r.conn) = << >>

C17_SubmitterOfBoardReceives == [][\A h \in Slots : C17_Step(h)]_vars

\* the only connection ever accepted is open on b1 and holds the snapshot of
\* the batch it submitted
C17_Witness ==
  \E c \in Conns :
    /\ \A d \in Conns \ {c} : ws[d].readyState = Connecting
    /\ ws[c].readyState = Open /\ ws[c].boardId = "b1"
    /\ req[1].result = "published"
    /\ inbox[c] = <<Msg("tasks_reorder", "b1", C7_ScenarioList, NoTask, None)>>

\* C18 (as claimed): every task_created and task_updated message on a
\* connection carries a task document, never an absent one, and the id of the
\* board that document belongs to.
C18_EventCarriesTask ==
  \A c \in Conns : \A k \in 1..Len(inbox[c]) :
    inbox[c][k].type \in {"task_created", "task_updated"} =>
      /\ inbox[c][k].task # NoTask
      /\ inbox[c][k].task.id \in TaskIds
      /\ inbox[c][k].task.boardId = inbox[c][k].boardId

\* C19 (as claimed): the step that inserts a created task stores it with the
\* order one above the largest order stored in its board and column at that
\* step, or 0 when the board holds none in that column.
OrdersIn(b, col) == {t.order : t \in {x \in TasksOf(b) : x.column = col}}

C19_Step(h) ==
  LET t == req[h].task
      orders == OrdersIn(t.boardId, t.column)
  IN (req[h].kind = "create" /\ req[h].pc = "insertOne" /\ req'[h].pc = "bcast") =>
       /\ tasksCol'[t.id].order = IF orders = {} THEN 0
                                  ELSE (CHOOSE m \in orders : \A o \in orders : o <= m) + 1
       /\ tasksCol'[t.id].order \notin orders

C19_CreateOrderIsNext == [][\A h \in Slots : C19_Step(h)]_vars

\* C20: an update or delete request whose task lookup finds no stored task
\* returns 404 in that step, which changes no stored task and sends nothing;
\* and a request that has answered 404 takes no further step.
C20_Step(h) ==
  LET r == req[h]
  IN /\ (r.kind \in {"update", "delete"} /\ r.pc = "findTask" /\ tasksCol[r.id].id = None
            /\ req'[h] # r) =>
          /\ req'[h].pc = "done" /\ req'[h].result = "404"
          /\ tasksCol' = tasksCol
          /\ inbox' = inbox
     /\ r.result = "404" => req'[h] = r

C20_NotFoundIsLocal == [][\A h \in Slots : C20_Step(h)]_vars

\* A has been deleted by one request and another request for A was answered
\* 404; the client of b1 holds the deletion's event and nothing else
C20_Witness ==
  \E g, h \in Slots, c \in Conns :
    /\ req[g].kind = "delete" /\ req[g].id = "A" /\ req[g].result = "200"
    /\ req[h].kind \in {"update", "delete"} /\ req[h].id = "A" /\ req[h].result = "404"
    /\ tasksCol["A"] = NoTask
    /\ c \in OpenClients("b1")
    /\ inbox[c] = <<Msg("task_deleted", "b1", << >>, NoTask, "A")>>

\* C21: a write of a reorder handler leaves every task that is not of the
\* board the batch names as it was: a tuple naming a task of another board
\* changes neither that task nor any other.
C21_Step(h) ==
  (req[h].kind = "reorder" /\ req[h].pc = "apply" /\ req'[h] # req[h]) =>
    /\ \A t \in TaskIds : tasksCol[t].boardId # req[h].boardId => tasksCol'[t] = tasksCol[t]
    /\ \A t \in TaskIds : t # req[h].updates[req[h].i + 1].id => tasksCol'[t] = tasksCol[t]

C21_ForeignTupleChangesNothing == [][\A h \in Slots : C21_Step(h)]_vars

\* u1, who may access b1, has had the write for D, a task of b2, run in a
\* batch for b1, and D is as it was
C21_Witness ==
  \E h \in Slots :
    /\ req[h].kind = "reorder" /\ req[h].user = "u1" /\ req[h].boardId = "b1"
    /\ req[h].updates = ForeignBatch
    /\ req[h].pc = "bcast"
    /\ tasksCol["D"] = Task("D", "b2", "todo", 0)

\* C22: each write of an authorized batch sets the column and order of the
\* task its tuple names if the board holds it and changes nothing if it does
\* not, leaves every other task as the earlier writes left it, and is followed
\* by the batch's next tuple or, after the last, by the read; and the batch
\* ends with its snapshot published.
C22_Step(h) ==
  LET r == req[h]
      t == r.updates[r.i + 1]
      held == tasksCol[t.id].id # None /\ tasksCol[t.id].boardId = r.boardId
  IN (r.kind = "reorder" /\ r.pc = "apply" /\ req'[h] # r) =>
       /\ tasksCol' = IF held
                      THEN [tasksCol EXCEPT ![t.id] = Task(t.id, r.boardId, t.column, t.order)]
                      ELSE tasksCol
       /\ req'[h].i = r.i + 1
       /\ req'[h].pc = IF r.i + 1 = Len(r.updates) THEN "read" ELSE "apply"

C22_MissingTupleSkipped ==
  /\ [][\A h \in Slots : C22_Step(h)]_vars
  /\ \A h \in Slots : (req[h].kind = "reorder" /\ req[h].pc = "apply") ~> (req[h].result = "published")

\* GapBatch has been applied but for its second tuple and read back
C22_Witness ==
  \E h \in Slots :
    /\ req[h].updates = GapBatch
    /\ req[h].pc = "bcast"
    /\ tasksCol["N2"] = NoTask
    /\ req[h].tasks = <<Task("A", "b1", "inprogress", 0), Task("C", "b1", "todo", 0)>>
    /\ \E c \in OpenClients("b1") : TRUE

\* C23 (as claimed): no step of the handler of a message that is out of shape
\* (data that does not parse, a message that is no reorder, a reorder without
\* tasks or with a null among its tasks) changes a stored task, sends a
\* message, or changes the connections or the registry.
OutOfShape(r) ==
  \/ r.kind = "message"
  \/ r.kind = "reorder" /\ ~r.tasksGiven
  \/ r.kind = "reorder" /\ \E k \in 1..Len(r.updates) : r.updates[k] = NullEntry

C23_Step(h) ==
  (req'[h] # req[h] /\ (OutOfShape(req[h]) \/ OutOfShape(req'[h]))) =>
    /\ tasksCol' = tasksCol
    /\ inbox' = inbox
    /\ ws' = ws
    /\ boardConnections' = boardConnections

C23_MalformedDiscarded == [][\A h \in Slots : C23_Step(h)]_vars

\* C24 (as claimed): two reads of a board that found the same documents
\* returned them in the same sequence.
Range(seq) == {seq[k] : k \in 1..Len(seq)}

C24_ReadsAgree ==
  \A g, h \in Slots :
    (/\ req[g].kind = "reorder" /\ req[g].pc = "bcast"
     /\ req[h].kind = "reorder" /\ req[h].pc = "bcast"
     /\ req[g].boardId = req[h].boardId
     /\ Range(req[g].tasks) = Range(req[h].tasks)) =>
      req[g].tasks = req[h].tasks

\* C25: a task route reaches its broadcast only from its awaited write (the
\* update by way of its read-back), with the inserted task stored or the
\* deleted task gone in that very step; the step that answers 200 is the step
\* of the broadcast, which puts the route's event on every open client of the
\* board while the request is still unanswered; and no other step of a task
\* route, a failed write among them, sends anything.
EventOf(kind) ==
  CASE kind = "create" -> "task_created"
    [] kind = "update" -> "task_updated"
    [] kind = "delete" -> "task_deleted"

C25_Step(h) ==
  LET r == req[h]
      rest == r.kind \in {"create", "update", "delete"}
  IN /\ (rest /\ r.pc # "bcast" /\ req'[h].pc = "bcast") =>
          CASE r.kind = "create" -> r.pc = "insertOne" /\ tasksCol'[r.task.id] = r.task
            [] r.kind = "delete" -> r.pc = "deleteOne" /\ tasksCol'[r.id] = NoTask
            [] r.kind = "update" -> r.pc = "findOne"
     /\ (rest /\ r.pc # "findOne" /\ req'[h].pc = "findOne") =>
          /\ r.pc = "updateOne"
          /\ tasksCol[r.id] # NoTask => tasksCol'[r.id].column = r.column
     /\ (rest /\ r.result # "200" /\ req'[h].result = "200") =>
          /\ r.pc = "bcast" /\ r.result = None
          /\ \A c \in OpenClients(r.boardId) :
               Len(Delta(c)) = 1 /\ Delta(c)[1].type = EventOf(r.kind)
     /\ (rest /\ req'[h] # r /\ r.pc # "bcast") => inbox' = inbox

C25_BroadcastAfterCommit ==
  /\ [][\A h \in Slots : C25_Step(h)]_vars
  /\ [][(inbox' # inbox /\ \E c \in Conns : Len(inbox'[c]) > Len(inbox[c])) =>
          \E h \in Slots : req[h].pc = "bcast" /\ req'[h].result = "200"]_vars

\* one create failed at its write and another succeeded: the client of b1
\* holds the event of the second, whose task is stored, and nothing else
C25_Witness ==
  \E g, h \in Slots, c \in Conns :
    /\ req[g].kind = "create" /\ req[g].result = "500"
    /\ req[h].kind = "create" /\ req[h].result = "200"
    /\ c \in OpenClients("b1")
    /\ Len(inbox[c]) = 1
    /\ inbox[c][1].type = "task_created"
    /\ tasksCol[inbox[c][1].task.id] = inbox[c][1].task

\* C26 (as claimed): what the reorder handler decides for a user and a board
\* and what the task routes decide for them is the same.  ReorderGrants and
\* RestGrants are the two decisions as functions of the stored boards and
\* teams; each handler decides as its function says, and the two functions
\* agree on every user and board.
StoredBoard(b) == b \in DOMAIN boardsCol /\ boardsCol[b].id # None

InTeamOf(b, u) ==
  \E t \in DOMAIN teamsCol : teamsCol[t].id = boardsCol[b].teamId /\ u \in teamsCol[t].members

ReorderGrants(u, b) ==
  /\ StoredBoard(b)
  /\ IF boardsCol[b].isPersonal THEN boardsCol[b].ownerId = u ELSE InTeamOf(b, u)

RestGrants(u, b) ==
  /\ StoredBoard(b)
  /\ ~(boardsCol[b].isPersonal /\ boardsCol[b].ownerId # u)
  /\ (~boardsCol[b].isPersonal /\ boardsCol[b].teamId # None) => InTeamOf(b, u)

C26_Decides(h) ==
  LET r == req[h]
      deciding == r.pc \in {"findBoard", "findTeam"} /\ req'[h] # r
      granted == req'[h].pc \notin {"findTeam", "done"}
  IN /\ (r.kind = "reorder" /\ deciding /\ req'[h].pc # "findTeam") =>
          (granted <=> ReorderGrants(r.user, r.boardId))
     /\ (r.kind = "create" /\ deciding /\ req'[h].pc # "findTeam") =>
          (granted <=> RestGrants(r.user, r.boardId))

C26_SameAccessDecision ==
  /\ [][\A h \in Slots : C26_Decides(h)]_vars
  /\ [](\A u \in Users, b \in BoardKeys : ReorderGrants(u, b) <=> RestGrants(u, b))

====
